---- MODULE Spec2Model ----
(***************************************************************************)
(* Model of scrape_va_manual.py: the recursive, depth-bounded crawl        *)
(* (scrape_recursive), the helpers it calls (fetch_html,                   *)
(* get_html_from_selector, is_article_page, extract_links_from_html,       *)
(* convert_html_to_markdown, save_markdown_to_file) and main.              *)
(*                                                                         *)
(* Strings are modelled by what the code reads from them:                  *)
(*   - a URL is a record of its scheme, its netloc, the directory part of  *)
(*     its path with the marker substrings that part contains (case kept)  *)
(*     and the last segment of its path;                                   *)
(*   - an HTML document is a record of the elements the selectors of the   *)
(*     code can find in it;                                                *)
(*   - Python's None is a record whose kind/tag field is "None".           *)
(* The recursion is an explicit call stack of frames; `at` is the position *)
(* of a call inside scrape_recursive.                                      *)
(***************************************************************************)
EXTENDS Integers, Sequences, FiniteSets, TLC

\* ------------------------------------------------------------------ bounds

\* --max-depth is drawn from -1 .. MaxDepthBound
MaxDepthBound == 2
\* the live start page carries at most this many anchors in its lists
MaxAnchors == 2
\* no call is modelled deeper than this (the code itself never comes near it)
DepthCap == MaxDepthBound + 2

\* ------------------------------------------------------------------ URLs

target_live_domain == "www.knowva.ebenefits.va.gov"

\* marker substrings the code looks for in a URL; "/Article/" is a spelling
\* that only url.lower() recognises
Markers == {"/article/", "/Article/", "mockarticle", "/topic/", "mocktopic"}

\* the {depth} slot of a URL that was not made from a DUMMY_*_TEMPLATE
NoDepth == 0 - 1

\* A URL scheme://netloc/dir/rest:
\*   dir    the directory part of the path (all but the last segment), by name
\*   marks  the marker substrings the directory part contains
\*   from   the {depth} slot of the directory part
\*   rest   the last segment of the path; it contains no marker
Url(scheme, netloc, dir, marks, rest, from) ==
    [scheme |-> scheme, netloc |-> netloc, dir |-> dir, marks |-> marks,
     rest |-> rest, from |-> from]

\* str.lower() applied to the markers a URL contains
LowerMark(m) == IF m = "/Article/" THEN "/article/" ELSE m

Lower(url) == [url EXCEPT !.marks = {LowerMark(m) : m \in url.marks}]

DUMMY_ARTICLE_URL_1_TEMPLATE(depth) ==
    Url("https", target_live_domain, "portal/article/mockarticle1_from_depth",
        {"/article/", "mockarticle"}, "Mock-Article-Page-1", depth)

DUMMY_DIRECTORY_URL_2_TEMPLATE(depth) ==
    Url("https", target_live_domain, "portal/topic/mocktopic2_from_depth",
        {"/topic/", "mocktopic"}, "Mock-Directory-Page-2", depth)

DUMMY_ARTICLE_URL_3_TEMPLATE(depth) ==
    Url("https", target_live_domain, "portal/article/mockarticle3_from_depth",
        {"/article/", "mockarticle"}, "Mock-Article-Page-3", depth)

\* the positional argument `url` of main
StartUrl ==
    Url("https", target_live_domain, "portal/topic/554400000004049", {"/topic/"},
        "M21-1-Adjudication-Procedures-Manual", NoDepth)

\* ------------------------------------------------------------------ HTML

\* An element, as the string get_html_from_selector returns for it:
\*   tag       which selector it answers ("None": no element, Python's None)
\*   strings   whether it holds a non-whitespace text node (stripped_strings);
\*             an element without strings has no child at all
\*   li        whether find('li') finds a list item in it
\*   li_a      whether that first list item holds an anchor
\*   anchors   the href attributes of its <a href=...> tags, in document order
\*   about     whose text it is (read by nothing but the Markdown it becomes)
Element(tag, strings, li, li_a, anchors, about) ==
    [tag |-> tag, strings |-> strings, li |-> li, li_a |-> li_a,
     anchors |-> anchors, about |-> about]

NoneElement == Element("None", FALSE, FALSE, FALSE, <<>>, StartUrl)

\* An href attribute: form is "empty" (""), "fragment" ("#..."),
\* "javascript" ("javascript:..."), "absolute" (scheme://netloc/dir/rest),
\* "relative" (a path /dir/rest from the root of the base's host),
\* "document_relative" (a bare last segment, resolved in the directory of
\* the base) or "invalid" (a netloc that urllib refuses, such as "http://[x":
\* urljoin raises ValueError)
Href(form, url) == [form |-> form, url |-> url]

\* An HTML document (html_content):
\*   kind          "None", "empty" (the string "") or "document"
\*   container     div#eg-ss-article-content exists
\*   body          first 'div#article-body, div.article-body' inside the
\*                 container: "absent", "by_id" or "by_class"
\*   body_strings  that body holds a non-whitespace text node
\*   first_id_body the first div#article-body of the whole document
\*   view          div#eg-ss-view exists
\*   sub_topics    first ul#sub-topics-list of the whole document
\*   more_articles first div#eg-ss-topic-more-articles-list-custom ul.list-group
\*                 of the whole document
\*   view_sub_topics, view_more_articles
\*                 the first such lists inside div#eg-ss-view
Html(kind, container, body, body_strings, first_id_body, view, sub_topics, more_articles, view_sub_topics, view_more_articles) ==
    [kind |-> kind, container |-> container, body |-> body,
     body_strings |-> body_strings, first_id_body |-> first_id_body,
     view |-> view, sub_topics |-> sub_topics, more_articles |-> more_articles,
     view_sub_topics |-> view_sub_topics, view_more_articles |-> view_more_articles]

NoneHtml ==
    Html("None", FALSE, "absent", FALSE, NoneElement, FALSE, NoneElement, NoneElement,
         NoneElement, NoneElement)

EmptyHtml ==
    Html("empty", FALSE, "absent", FALSE, NoneElement, FALSE, NoneElement, NoneElement,
         NoneElement, NoneElement)

\* `not html_string`
Falsy(html) == html.kind \in {"None", "empty"}

\* the mock article with its body marked by class, not by id
MOCK_ARTICLE_HTML_BY_CLASS(url) ==
    Html("document", TRUE, "by_class", TRUE, NoneElement, TRUE, NoneElement, NoneElement,
         NoneElement, NoneElement)

MOCK_ARTICLE_HTML_TEMPLATE(url) ==
    Html("document", TRUE, "by_id", TRUE,
         Element("div#article-body", TRUE, FALSE, FALSE, <<>>, url),
         TRUE, NoneElement, NoneElement, NoneElement, NoneElement)

\* the list of the mock directory sits inside its div#eg-ss-view
MOCK_DIRECTORY_HTML_TEMPLATE(url, l1, l2, l3) ==
    LET list == Element("ul#sub-topics-list", TRUE, TRUE, TRUE,
                        <<Href("absolute", l1), Href("absolute", l2), Href("absolute", l3)>>,
                        url)
    IN  Html("document", FALSE, "absent", FALSE, NoneElement, TRUE,
             list, NoneElement, list, NoneElement)

\* ------------------------------------------------------- pure functions

\* the block page of the WAF handed on as if it were the page asked for
fetch_html_keeps_waf_page(url, response) ==
    IF response.raises # "no" THEN NoneHtml ELSE response.html

\* What the live site answers to a request:
\*   raises  "no", or the exception session.get / raise_for_status / render
\*           raises: "RequestException", "MaxRetries", "HTMLTimeoutError",
\*           "Exception"
\*   waf     the rendered text is a "Request Rejected" page carrying a support
\*           ID or an appliance name
\*   html    the rendered document (r.html.html)
Response(raises, waf, html) == [raises |-> raises, waf |-> waf, html |-> html]

\* the answer as the history variable `answered` keeps it
Answer(response) ==
    IF response.raises # "no" THEN response.raises
    ELSE IF response.waf THEN "waf"
    ELSE "ok"

fetch_html(url, response) ==
    IF response.raises # "no" THEN NoneHtml
    ELSE IF response.waf THEN NoneHtml
    ELSE response.html

\* The subtree of div#eg-ss-view as a document of its own; only the lists of
\* the view are ever selected from it.
ViewHtml(html) ==
    Html("document", FALSE, "absent", FALSE, NoneElement, TRUE,
         html.view_sub_topics, html.view_more_articles,
         html.view_sub_topics, html.view_more_articles)

\* select_one searches the whole string it is given: the first match of the
\* document, inside or outside div#eg-ss-view
get_html_from_selector(html_string, selector_string) ==
    IF selector_string = "div#eg-ss-view"
    THEN IF Falsy(html_string) \/ ~html_string.view THEN NoneHtml
         ELSE ViewHtml(html_string)
    ELSE IF Falsy(html_string) THEN NoneElement
    ELSE IF selector_string = "div#article-body" THEN html_string.first_id_body
    ELSE IF selector_string = "ul#sub-topics-list" THEN html_string.sub_topics
    ELSE IF selector_string = "div#eg-ss-topic-more-articles-list-custom ul.list-group"
         THEN html_string.more_articles
    ELSE NoneElement

\* lines 137-140 and 143: the lists of context_node_for_directory_checks,
\* the view when there is one and the whole document otherwise
ContextSubTopics(page_html_content) ==
    IF page_html_content.view THEN page_html_content.view_sub_topics
    ELSE page_html_content.sub_topics

ContextMoreArticles(page_html_content) ==
    IF page_html_content.view THEN page_html_content.view_more_articles
    ELSE page_html_content.more_articles

\* the navigation markers looked at first: a page with a list of sub-topics
\* is no article, whatever its article container holds
is_article_page_lists_first(page_html_content) ==
    IF Falsy(page_html_content) THEN FALSE
    ELSE IF /\ ContextSubTopics(page_html_content).tag # "None"
            /\ ContextSubTopics(page_html_content).li
         THEN FALSE
    ELSE /\ page_html_content.container
         /\ page_html_content.body # "absent"
         /\ page_html_content.body_strings

is_article_page(page_html_content) ==
    IF Falsy(page_html_content) THEN FALSE
    ELSE IF /\ page_html_content.container
            /\ page_html_content.body # "absent"
            /\ page_html_content.body_strings
         THEN TRUE
    ELSE IF /\ ContextSubTopics(page_html_content).tag # "None"
            /\ ContextSubTopics(page_html_content).li
         THEN FALSE
    ELSE IF /\ ContextMoreArticles(page_html_content).tag # "None"
            /\ ContextMoreArticles(page_html_content).li
            /\ ContextMoreArticles(page_html_content).li_a
         THEN FALSE
    ELSE FALSE

\* urllib.parse.urljoin(base_url, href): an absolute href is kept, a path from
\* the root replaces the path of the base, a bare segment replaces the last
\* segment of the base and keeps its directory, markers and depth slot
\* included
urljoin(base_url, href) ==
    IF href.form = "relative"
    THEN [href.url EXCEPT !.scheme = base_url.scheme, !.netloc = base_url.netloc]
    ELSE IF href.form = "document_relative"
    THEN [base_url EXCEPT !.rest = href.url.rest]
    ELSE href.url

\* the anchors the loop of extract_links_from_html does not `continue` over
Resolvable(href) == href.form \notin {"empty", "fragment", "javascript"}

\* urljoin raises ValueError on some anchor: nothing in extract_links_from_html
\* or scrape_recursive catches it
extract_links_raises(nav_block_html) ==
    /\ nav_block_html.tag # "None"
    /\ \E i \in 1..Len(nav_block_html.anchors) : nav_block_html.anchors[i].form = "invalid"

\* the `if` of lines 166-170 on absolute_url
LinkAccepted(absolute_url) ==
    /\ absolute_url.scheme \in {"http", "https"}
    /\ \/ absolute_url.netloc = target_live_domain
       \/ "mockarticle" \in absolute_url.marks
       \/ "mocktopic" \in absolute_url.marks

\* valid_urls, the set that extract_links_from_html turns into a list
extract_links_from_html(nav_block_html, base_url) ==
    IF nav_block_html.tag = "None" THEN {}
    ELSE { urljoin(base_url, nav_block_html.anchors[i]) :
             i \in { j \in 1..Len(nav_block_html.anchors) :
                       /\ Resolvable(nav_block_html.anchors[j])
                       /\ LinkAccepted(urljoin(base_url, nav_block_html.anchors[j])) } }

\* list(valid_urls): the iteration order of a set of strings is any order
RECURSIVE Orders(_)
Orders(S) ==
    IF S = {} THEN { <<>> }
    ELSE UNION { { <<x>> \o rest : rest \in Orders(S \ {x}) } : x \in S }

\* A Markdown text: kind is "None", "empty" ("") or "text"
Markdown(kind, about) == [kind |-> kind, about |-> about]

\* md_raises: markdownify raises on this string (the except branch of lines
\* 177-179 returns None)
convert_html_to_markdown(html_string, md_raises) ==
    IF html_string.tag = "None" THEN Markdown("None", StartUrl)
    ELSE IF md_raises THEN Markdown("None", StartUrl)
    ELSE IF html_string.strings THEN Markdown("text", html_string.about)
    ELSE Markdown("empty", StartUrl)

\* the header written with the URL the crawl was started with
PartHeadedByStartUrl(current_url, markdown_content) ==
    [header |-> StartUrl, markdown |-> markdown_content]

\* url_header + markdown_content
Part(current_url, markdown_content) == [header |-> current_url, markdown |-> markdown_content]

\* ------------------------------------------------------------- inputs

\* hrefs the lists of the live start page are made of
HrefArticle ==
    Href("relative", Url("", "", "portal/Article/554400000014119", {"/Article/"},
                         "M21-1-Part-I-Chapter-1", NoDepth))
HrefTopic ==
    Href("relative", Url("", "", "portal/topic/554400000004050", {"/topic/"},
                         "M21-1-Part-I", NoDepth))
\* a bare segment: resolved in the directory of the page that holds it
HrefSibling == Href("document_relative", Url("", "", "", {}, "M21-1-Part-II", NoDepth))
HrefMockArticle == Href("absolute", DUMMY_ARTICLE_URL_1_TEMPLATE(1))
HrefMockTopic == Href("absolute", DUMMY_DIRECTORY_URL_2_TEMPLATE(1))
HrefUnknown == Href("absolute", Url("https", target_live_domain, "portal", {}, "home", NoDepth))
HrefFragment == Href("fragment", Url("", "", "", {}, "#top", NoDepth))
HrefInvalid == Href("invalid", Url("http", "[x", "", {}, "", NoDepth))

AnchorPool == <<HrefArticle, HrefSibling, HrefMockArticle, HrefMockTopic, HrefUnknown,
                HrefFragment, HrefInvalid>>

\* the anchors of a list: the hrefs of AnchorPool at the indices I, in pool
\* order (the code turns them into a set, so their order is never read)
RECURSIVE AnchorsAt(_)
AnchorsAt(I) ==
    IF I = {} THEN <<>>
    ELSE LET i == CHOOSE k \in I : \A j \in I : k <= j
         IN  <<AnchorPool[i]>> \o AnchorsAt(I \ {i})

AnchorLists ==
    { AnchorsAt(I) : I \in { J \in SUBSET (1..Len(AnchorPool)) : Cardinality(J) <= MaxAnchors } }

SubTopicsLists ==
    { NoneElement, Element("ul#sub-topics-list", FALSE, FALSE, FALSE, <<>>, StartUrl) }
    \cup { Element("ul#sub-topics-list", TRUE, TRUE, TRUE, L, StartUrl) : L \in AnchorLists }

MoreArticlesLists ==
    { NoneElement }
    \cup { Element("ul.list-group", TRUE, TRUE, TRUE, L, StartUrl) : L \in AnchorLists }

\* a document whose first lists are sub and more: without a view
\* ("no_view"), with the lists inside the view ("in_view") or with a view
\* and the lists outside it ("outside_view")
Placed(where, container, body, body_strings, first_id_body, sub, more) ==
    Html("document", container, body, body_strings, first_id_body,
         where # "no_view", sub, more,
         IF where = "in_view" THEN sub ELSE NoneElement,
         IF where = "in_view" THEN more ELSE NoneElement)

Placements == {"no_view", "in_view", "outside_view"}

\* live pages without an article body text: navigation pages
ListingPages ==
    UNION { { Placed(where, FALSE, "absent", FALSE, NoneElement, sub, more) :
                where \in Placements,
                more \in { m \in MoreArticlesLists :
                             Len(sub.anchors) + Len(m.anchors) <= MaxAnchors } } :
            sub \in SubTopicsLists }

IdBodies ==
    { NoneElement,
      Element("div#article-body", FALSE, FALSE, FALSE, <<>>, StartUrl),
      Element("div#article-body", TRUE, FALSE, FALSE, <<>>, StartUrl) }

\* live pages with an article container, with and without a list beside it
ArticlePages ==
    { Placed("in_view", TRUE, b, t, fib, sub, NoneElement) :
        b \in {"absent", "by_id", "by_class"},
        t \in BOOLEAN,
        fib \in IdBodies,
        sub \in { NoneElement,
                  Element("ul#sub-topics-list", TRUE, TRUE, TRUE, <<HrefMockArticle>>, StartUrl) } }

\* a body found by id is a div#article-body of the document; a body that is
\* absent has no strings; a list of the view is a list of the document
WellFormed(html) ==
    /\ html.body = "by_id" => html.first_id_body.tag # "None"
    /\ html.body = "absent" => ~html.body_strings
    /\ ~html.view => html.view_sub_topics.tag = "None" /\ html.view_more_articles.tag = "None"
    /\ html.view_sub_topics.tag # "None" => html.sub_topics.tag # "None"
    /\ html.view_more_articles.tag # "None" => html.more_articles.tag # "None"

\* the "Request Rejected" page of the WAF: a document with none of the markers
RejectedPage ==
    Html("document", FALSE, "absent", FALSE, NoneElement, FALSE, NoneElement, NoneElement,
         NoneElement, NoneElement)

Responses ==
    { Response(r, FALSE, NoneHtml) :
        r \in {"RequestException", "MaxRetries", "HTMLTimeoutError", "Exception"} }
    \cup { Response("no", TRUE, RejectedPage) }
    \cup { Response("no", FALSE, h) :
             h \in {EmptyHtml} \cup ListingPages \cup { a \in ArticlePages : WellFormed(a) } }

\* --------------------------------------------------------------- state

VARIABLES
    max_depth,                  \* args.max_depth
    pc,                         \* position of main: "start", "scraping", "done" (main is over:
                                \* it returned, or an exception left it)
    stack,                      \* the calls of scrape_recursive in progress, innermost last
    visited_urls,               \* set of URLs
    aggregated_markdown_parts,  \* sequence of parts
    output_file,                \* what was written to args.output_filename
    outcome,                    \* how main went: "running", "saved", "save_failed", "nothing",
                                \* or "exception" (the `except` of line 312 was entered)
    exit_status,                \* exit status of the process, NotExited while it runs
    answered,                   \* how the live site answered: "not_asked" (session.get was
                                \* not called), "ok", "waf" or the exception raised (history)
    trace,                      \* what happened so far, in order (history)
    probe                       \* a helper called on its own: the call and what it
                                \* returned (NoProbe while main runs)

vars == <<max_depth, pc, stack, visited_urls, aggregated_markdown_parts,
          output_file, outcome, exit_status, answered, trace, probe>>

\* a call of scrape_recursive; `at` is "enter" (line 201), "obtain" (line 210),
\* "classify" (line 233), "loop" (line 262) or "exit" (line 267)
Frame(current_url, current_depth, at, html_content, is_mocked_page, sub_links) ==
    [current_url |-> current_url, current_depth |-> current_depth, at |-> at,
     html_content |-> html_content, is_mocked_page |-> is_mocked_page,
     sub_links |-> sub_links]

\* an entry of the history: what happened, to which URL, in a call of which
\* depth; `links` is valid_urls for a "listing" entry and empty otherwise
LinksEvent(ev, url, depth, links) == [ev |-> ev, url |-> url, depth |-> depth, links |-> links]

Event(ev, url, depth) == LinksEvent(ev, url, depth, {})

Top == stack[Len(stack)]

Pop(stk) == SubSeq(stk, 1, Len(stk) - 1)

\* the innermost call moves on to position `at`
Goto(at) == [stack EXCEPT ![Len(stack)].at = at]

\* the innermost call moves on past line 260 with the list sub_links;
\* html_content is not read after that line and the frame lets go of it
Leave(at, sub_links) ==
    [stack EXCEPT ![Len(stack)].at = at,
                  ![Len(stack)].html_content = NoneHtml,
                  ![Len(stack)].sub_links = sub_links]

\* the file args.output_filename:
\*   written    this run wrote the whole text into it
\*   truncated  this run opened it for writing (what it held before is gone)
\*              and the write failed: it holds a proper prefix of the text,
\*              possibly nothing
\*   parts      the parts of the text it holds, joined by the separator line
NoFile == [written |-> FALSE, truncated |-> FALSE, parts |-> <<>>]

Joined(parts) == [written |-> TRUE, truncated |-> FALSE, parts |-> parts]

Truncated == [written |-> FALSE, truncated |-> TRUE, parts |-> <<>>]

NotExited == 0 - 1

\* the exit status of the process once main is over (lines 312-333 and the
\* shutdown of the interpreter): 0; 1 when an exception left main, which is
\* when the print of line 313 or of line 329 raised; 120 when the interpreter
\* could not flush stdout or stderr at shutdown
ExitStatuses == {0, 1, 120}

\* no helper was called on its own
NoProbe == [op |-> "none"]

Init ==
    /\ probe = NoProbe
    /\ max_depth \in (0 - 1)..MaxDepthBound
    /\ pc = "start"
    /\ stack = <<>>
    /\ visited_urls = {}
    /\ aggregated_markdown_parts = <<>>
    /\ output_file = NoFile
    /\ outcome = "running"
    /\ exit_status = NotExited
    /\ answered = "not_asked"
    /\ trace = <<>>

\* ------------------------------------------------- scrape_recursive

\* the depth guard off by one: a call one level too deep is let through
DepthGuardOffByOne(current_depth, max) == current_depth > max + 1

\* the depth guard left out
DepthGuardNever(current_depth, max) == FALSE

\* the depth guard one level too strict
DepthGuardTooStrict(current_depth, max) == current_depth >= max

\* line 202
DepthGuard(current_depth, max) == current_depth > max

\* the visited guard left out
AlreadyVisitedNever(current_url, visited) == FALSE

\* line 205
AlreadyVisited(current_url, visited) == current_url \in visited

\* lines 220-229: which mock a URL gets at depth >= 1
MockKind(current_url) ==
    IF "/article/" \in Lower(current_url).marks \/ "mockarticle" \in Lower(current_url).marks
    THEN "article"
    ELSE IF "/topic/" \in Lower(current_url).marks \/ "mocktopic" \in Lower(current_url).marks
    THEN "directory"
    ELSE "unknown"

\* the mock directory with the same links at every depth
MockHtmlFixedLinks(current_url, current_depth) ==
    IF MockKind(current_url) = "article" THEN MOCK_ARTICLE_HTML_TEMPLATE(current_url)
    ELSE MOCK_DIRECTORY_HTML_TEMPLATE(current_url,
                                      DUMMY_ARTICLE_URL_1_TEMPLATE(1),
                                      DUMMY_DIRECTORY_URL_2_TEMPLATE(1),
                                      DUMMY_ARTICLE_URL_3_TEMPLATE(1))

\* lines 222 and 225-228
MockHtml(current_url, current_depth) ==
    IF MockKind(current_url) = "article" THEN MOCK_ARTICLE_HTML_TEMPLATE(current_url)
    ELSE MOCK_DIRECTORY_HTML_TEMPLATE(current_url,
                                      DUMMY_ARTICLE_URL_1_TEMPLATE(current_depth),
                                      DUMMY_DIRECTORY_URL_2_TEMPLATE(current_depth),
                                      DUMMY_ARTICLE_URL_3_TEMPLATE(current_depth))

\* the lists looked for in the whole document, view or no view
NavBlockFromDocument(html_content, is_mocked_page) ==
    IF is_mocked_page THEN get_html_from_selector(html_content, "ul#sub-topics-list")
    ELSE LET first == get_html_from_selector(html_content, "ul#sub-topics-list")
         IN  IF first.tag = "None" \/ ~first.li
             THEN get_html_from_selector(html_content,
                     "div#eg-ss-topic-more-articles-list-custom ul.list-group")
             ELSE first

\* lines 248-257: nav_block_html
NavBlock(html_content, is_mocked_page) ==
    IF is_mocked_page THEN get_html_from_selector(html_content, "ul#sub-topics-list")
    ELSE LET eg_ss_view_html_str == get_html_from_selector(html_content, "div#eg-ss-view")
             first == get_html_from_selector(eg_ss_view_html_str, "ul#sub-topics-list")
         IN  IF Falsy(eg_ss_view_html_str) THEN NoneElement
             ELSE IF first.tag = "None" \/ ~first.li
                  THEN get_html_from_selector(eg_ss_view_html_str,
                          "div#eg-ss-topic-more-articles-list-custom ul.list-group")
                  ELSE first

\* the first level below the start page fetched live as well
IsLiveFirstLevelToo(current_depth) == current_depth <= 1

\* line 213: the page of this call is fetched from the live site
IsLive(current_depth) == current_depth = 0

\* the recursive call made with the depth of the caller
ChildDepthSame(current_depth) == current_depth

\* line 263: the depth of the recursive call
ChildDepth(current_depth) == current_depth + 1

\* a `return` that ends the caller as well (its remaining links are dropped)
ReturnedPastCaller(stk) == SubSeq(stk, 1, Len(stk) - 2)

\* the stack after a `return` of the innermost call
Returned(stk) == Pop(stk)

InCall(at) == pc = "scraping" /\ stack # <<>> /\ Top.at = at

\* line 292: the first print to stderr raises (OSError: the stream cannot be
\* written to); scrape_recursive is never called
MainStartRaises ==
    /\ pc = "start"
    /\ pc' = "done"
    /\ outcome' = "exception"
    /\ exit_status' \in ExitStatuses
    /\ UNCHANGED <<probe, max_depth, stack, visited_urls, aggregated_markdown_parts,
                   output_file, answered, trace>>

\* main, lines 292-295, the print of line 292 went through
MainStart ==
    /\ pc = "start"
    /\ pc' = "scraping"
    /\ stack' = <<Frame(StartUrl, 0, "enter", NoneHtml, FALSE, <<>>)>>
    /\ trace' = Append(trace, Event("call", StartUrl, 0))
    /\ UNCHANGED <<probe, max_depth, visited_urls, aggregated_markdown_parts,
                   output_file, outcome, exit_status, answered>>

\* a print to stderr of the innermost call raises (OSError: the stream cannot
\* be written to): line 201, 203 or 206 at "enter"; line 221, 224 or 230 at
\* "obtain" of a page that is not fetched; line 234, 247, 257, 261 or 265 at
\* "classify"; line 243, 245 or 267 at "exit" and when the loop of line 262 is
\* over (between two calls of the loop nothing is printed). Nothing in
\* scrape_recursive catches it: the exception leaves every call in progress
\* and is caught by main, lines 312-329
PrintRaises ==
    /\ pc = "scraping" /\ stack # <<>>
    /\ Top.at = "obtain" => ~IsLive(Top.current_depth)
    /\ Top.at = "loop" => Top.sub_links = <<>>
    /\ stack' = <<>>
    /\ pc' = "done"
    /\ outcome' = "exception"
    /\ exit_status' \in ExitStatuses
    /\ trace' = Append(trace, Event("aborted", Top.current_url, Top.current_depth))
    /\ UNCHANGED <<probe, max_depth, visited_urls, aggregated_markdown_parts, output_file, answered>>

\* lines 202-204
SkipDepth ==
    /\ InCall("enter")
    /\ DepthGuard(Top.current_depth, max_depth)
    /\ stack' = Returned(stack)
    /\ trace' = Append(trace, Event("depth_guard", Top.current_url, Top.current_depth))
    /\ UNCHANGED <<probe, max_depth, pc, visited_urls, aggregated_markdown_parts,
                   output_file, outcome, exit_status, answered>>

\* lines 205-207
SkipVisited ==
    /\ InCall("enter")
    /\ ~DepthGuard(Top.current_depth, max_depth)
    /\ AlreadyVisited(Top.current_url, visited_urls)
    /\ stack' = Returned(stack)
    /\ trace' = Append(trace, Event("visited_guard", Top.current_url, Top.current_depth))
    /\ UNCHANGED <<probe, max_depth, pc, visited_urls, aggregated_markdown_parts,
                   output_file, outcome, exit_status, answered>>

\* line 208
Claim ==
    /\ InCall("enter")
    /\ ~DepthGuard(Top.current_depth, max_depth)
    /\ ~AlreadyVisited(Top.current_url, visited_urls)
    /\ visited_urls' = visited_urls \cup {Top.current_url}
    /\ stack' = Goto("obtain")
    /\ trace' = Append(trace, Event("claimed", Top.current_url, Top.current_depth))
    /\ UNCHANGED <<probe, max_depth, pc, aggregated_markdown_parts,
                   output_file, outcome, exit_status, answered>>

\* lines 213-217, the fetch fails
FetchFailed ==
    /\ InCall("obtain")
    /\ IsLive(Top.current_depth)
    /\ \E response \in Responses :
          /\ fetch_html(Top.current_url, response).kind = "None"
          /\ answered' = Answer(response)
    /\ stack' = Returned(stack)
    /\ trace' = Append(trace, Event("fetch_failed", Top.current_url, Top.current_depth))
    /\ UNCHANGED <<probe, max_depth, pc, visited_urls, aggregated_markdown_parts,
                   output_file, outcome, exit_status>>

\* lines 213-214, the fetch returns a document
Fetched ==
    /\ InCall("obtain")
    /\ IsLive(Top.current_depth)
    /\ \E response \in Responses :
          /\ fetch_html(Top.current_url, response).kind # "None"
          /\ answered' = Answer(response)
          /\ stack' = [stack EXCEPT ![Len(stack)].at = "classify",
                                    ![Len(stack)].html_content =
                                        fetch_html(Top.current_url, response)]
    /\ trace' = Append(trace, Event("fetched", Top.current_url, Top.current_depth))
    /\ UNCHANGED <<probe, max_depth, pc, visited_urls, aggregated_markdown_parts,
                   output_file, outcome, exit_status>>

\* lines 218-228
\* lines 213-214 with fetch_html, lines 81-95 and 106-108: a print of the try
\* block raises (OSError) and `except Exception` catches it, its own print
\* goes through and fetch_html returns None; then lines 215-217. The print is
\* the one of line 82, before session.get is called, the one of line 87, after
\* the site answered, or, the page rendered, the one of line 93 or 95
FetchFailedPrintCaught ==
    /\ InCall("obtain")
    /\ IsLive(Top.current_depth)
    /\ answered' \in {answered} \cup { Answer(response) : response \in { r \in Responses : r.raises = "no" } }
    /\ stack' = Returned(stack)
    /\ trace' = Append(trace, Event("fetch_failed", Top.current_url, Top.current_depth))
    /\ UNCHANGED <<probe, max_depth, pc, visited_urls, aggregated_markdown_parts,
                   output_file, outcome, exit_status>>

\* lines 213-216 with fetch_html: a print raises (OSError) where nothing
\* catches it, and the exception leaves every call in progress and is caught
\* by main, lines 312-329. The print is the one of a handler of fetch_html
\* (line 98, 101, 104 or 107: the site raised, or a print of the try block
\* did, the one of line 82 before session.get is called), or the one of
\* line 216, after fetch_html returned None
FetchPrintRaises ==
    /\ InCall("obtain")
    /\ IsLive(Top.current_depth)
    /\ answered' \in {answered} \cup { Answer(response) : response \in Responses }
    /\ stack' = <<>>
    /\ pc' = "done"
    /\ outcome' = "exception"
    /\ exit_status' \in ExitStatuses
    /\ trace' = Append(trace, Event("aborted", Top.current_url, Top.current_depth))
    /\ UNCHANGED <<probe, max_depth, visited_urls, aggregated_markdown_parts, output_file>>

Mocked ==
    /\ InCall("obtain")
    /\ ~IsLive(Top.current_depth)
    /\ MockKind(Top.current_url) # "unknown"
    /\ stack' = [stack EXCEPT ![Len(stack)].at = "classify",
                              ![Len(stack)].is_mocked_page = TRUE,
                              ![Len(stack)].html_content =
                                  MockHtml(Top.current_url, Top.current_depth)]
    /\ trace' = Append(trace, Event("mocked", Top.current_url, Top.current_depth))
    /\ UNCHANGED <<probe, max_depth, pc, visited_urls, aggregated_markdown_parts,
                   output_file, outcome, exit_status, answered>>

\* lines 229-231
SkipUnknown ==
    /\ InCall("obtain")
    /\ ~IsLive(Top.current_depth)
    /\ MockKind(Top.current_url) = "unknown"
    /\ stack' = Returned(stack)
    /\ trace' = Append(trace, Event("unknown_skip", Top.current_url, Top.current_depth))
    /\ UNCHANGED <<probe, max_depth, pc, visited_urls, aggregated_markdown_parts,
                   output_file, outcome, exit_status, answered>>

\* whether markdownify can raise on the article body of a page: the body of
\* the mock article is a fixed markup that it converts; the body of a live
\* page is any markup
MdRaises(is_mocked_page) == IF is_mocked_page THEN {FALSE} ELSE BOOLEAN

\* lines 236-242: what an article page adds to aggregated_markdown_parts
ArticleParts(current_url, html_content, md_raises) ==
    LET article_text_html_str == get_html_from_selector(html_content, "div#article-body")
        markdown_content == convert_html_to_markdown(article_text_html_str, md_raises)
    IN  IF article_text_html_str.tag # "None" /\ markdown_content.kind = "text"
        THEN <<Part(current_url, markdown_content)>>
        ELSE <<>>

\* the new part put in front of the parts collected so far
Prepended(parts, new) == new \o parts

\* line 242: aggregated_markdown_parts.append
Appended(parts, new) == parts \o new

\* lines 233-245
ArticlePage ==
    /\ InCall("classify")
    /\ is_article_page(Top.html_content)
    /\ \E md_raises \in MdRaises(Top.is_mocked_page) :
          LET parts == ArticleParts(Top.current_url, Top.html_content, md_raises)
          IN  /\ aggregated_markdown_parts' = Appended(aggregated_markdown_parts, parts)
              /\ trace' = trace \o <<Event("article", Top.current_url, Top.current_depth)>>
                                \o [i \in 1..Len(parts) |->
                                      Event("appended", Top.current_url, Top.current_depth)]
    /\ stack' = Leave("exit", <<>>)
    /\ UNCHANGED <<probe, max_depth, pc, visited_urls, output_file, outcome, exit_status, answered>>

\* lines 246-261: a listing page with a navigation block
ListingPage ==
    /\ InCall("classify")
    /\ ~is_article_page(Top.html_content)
    /\ NavBlock(Top.html_content, Top.is_mocked_page).tag # "None"
    /\ ~extract_links_raises(NavBlock(Top.html_content, Top.is_mocked_page))
    /\ \E sub_links \in Orders(extract_links_from_html(
                                  NavBlock(Top.html_content, Top.is_mocked_page),
                                  Top.current_url)) :
          stack' = Leave("loop", sub_links)
    /\ trace' = Append(trace, LinksEvent("listing", Top.current_url, Top.current_depth,
                                         extract_links_from_html(
                                             NavBlock(Top.html_content, Top.is_mocked_page),
                                             Top.current_url)))
    /\ UNCHANGED <<probe, max_depth, pc, visited_urls, aggregated_markdown_parts,
                   output_file, outcome, exit_status, answered>>

\* lines 246-258 and 264-265: a listing page without a navigation block
ListingPageNoNav ==
    /\ InCall("classify")
    /\ ~is_article_page(Top.html_content)
    /\ NavBlock(Top.html_content, Top.is_mocked_page).tag = "None"
    /\ stack' = Leave("exit", <<>>)
    /\ trace' = Append(trace, Event("no_nav", Top.current_url, Top.current_depth))
    /\ UNCHANGED <<probe, max_depth, pc, visited_urls, aggregated_markdown_parts,
                   output_file, outcome, exit_status, answered>>

\* line 260 raises (urljoin, ValueError); the exception leaves every call and
\* is caught by main, lines 312-329
ListingPageRaises ==
    /\ InCall("classify")
    /\ ~is_article_page(Top.html_content)
    /\ extract_links_raises(NavBlock(Top.html_content, Top.is_mocked_page))
    /\ stack' = <<>>
    /\ pc' = "done"
    /\ outcome' = "exception"
    /\ exit_status' \in ExitStatuses
    /\ trace' = Append(trace, Event("raised", Top.current_url, Top.current_depth))
    /\ UNCHANGED <<probe, max_depth, visited_urls, aggregated_markdown_parts, output_file, answered>>

\* lines 262-263: the next recursive call
CallChild ==
    /\ InCall("loop")
    /\ Top.sub_links # <<>>
    /\ ChildDepth(Top.current_depth) <= DepthCap
    /\ stack' = Append([stack EXCEPT ![Len(stack)].sub_links = Tail(Top.sub_links)],
                       Frame(Head(Top.sub_links), ChildDepth(Top.current_depth), "enter",
                             NoneHtml, FALSE, <<>>))
    /\ trace' = Append(trace, Event("call", Head(Top.sub_links), ChildDepth(Top.current_depth)))
    /\ UNCHANGED <<probe, max_depth, pc, visited_urls, aggregated_markdown_parts,
                   output_file, outcome, exit_status, answered>>

\* line 267, reached from the article branch, from a listing without
\* navigation block, and when the loop of line 262 is over
Return ==
    /\ pc = "scraping" /\ stack # <<>>
    /\ Top.at = "exit" \/ (Top.at = "loop" /\ Top.sub_links = <<>>)
    /\ stack' = Returned(stack)
    /\ trace' = Append(trace, Event("exit", Top.current_url, Top.current_depth))
    /\ UNCHANGED <<probe, max_depth, pc, visited_urls, aggregated_markdown_parts,
                   output_file, outcome, exit_status, answered>>

\* ------------------------------------------------------------------ main

\* save_markdown_to_file: the file after the call; `io` is "ok", "open_fails"
\* (open() raises: the file is not touched) or "write_fails" (open() has
\* truncated or created the file and write() raises)
save_markdown_to_file(markdown_string, io) ==
    IF io = "ok" THEN markdown_string
    ELSE IF io = "write_fails" THEN Truncated
    ELSE NoFile

\* the value save_markdown_to_file returns
save_returns(io) == io = "ok"

\* the file written whether or not parts were collected
HasPartsAlways(parts) == TRUE

\* line 297: `if aggregated_markdown_parts:`
HasParts(parts) == parts # <<>>

\* lines 298-303: a print before the save raises: one of the two prints to
\* stderr (OSError), or one of the two prints of the snippet to stdout (the
\* text cannot be encoded for stdout, or stdout cannot be written to); main's
\* `except Exception` catches it, and save_markdown_to_file is never called
MainSnippetRaises ==
    /\ pc = "scraping" /\ stack = <<>>
    /\ HasParts(aggregated_markdown_parts)
    /\ outcome' = "exception"
    /\ pc' = "done"
    /\ exit_status' \in ExitStatuses
    /\ UNCHANGED <<probe, max_depth, stack, visited_urls, aggregated_markdown_parts,
                   output_file, answered, trace>>

\* lines 305-306: the file is saved and print() of "Successfully saved ..."
\* to stdout raises; main's `except Exception` catches it
MainSavedPrintRaises ==
    /\ pc = "scraping" /\ stack = <<>>
    /\ HasParts(aggregated_markdown_parts)
    /\ output_file' = save_markdown_to_file(Joined(aggregated_markdown_parts), "ok")
    /\ outcome' = "exception"
    /\ pc' = "done"
    /\ exit_status' \in ExitStatuses
    /\ UNCHANGED <<probe, max_depth, stack, visited_urls, aggregated_markdown_parts, answered, trace>>

\* lines 188, 191 and 308: the save fails and a print to stderr that reports
\* it raises: the one in the `except` of save_markdown_to_file, or the one of
\* line 308; main's `except Exception` catches it
MainSaveFailedPrintRaises ==
    /\ pc = "scraping" /\ stack = <<>>
    /\ HasParts(aggregated_markdown_parts)
    /\ \E io \in {"open_fails", "write_fails"} :
          output_file' = save_markdown_to_file(Joined(aggregated_markdown_parts), io)
    /\ outcome' = "exception"
    /\ pc' = "done"
    /\ exit_status' \in ExitStatuses
    /\ UNCHANGED <<probe, max_depth, stack, visited_urls, aggregated_markdown_parts, answered, trace>>

\* lines 297-308: parts were collected and every print() of the `try` went
\* through
MainSave ==
    /\ pc = "scraping" /\ stack = <<>>
    /\ HasParts(aggregated_markdown_parts)
    /\ \E io \in {"ok", "open_fails", "write_fails"} :
          /\ output_file' = save_markdown_to_file(Joined(aggregated_markdown_parts), io)
          /\ outcome' = IF save_returns(io) THEN "saved" ELSE "save_failed"
    /\ pc' = "done"
    /\ exit_status' \in ExitStatuses
    /\ UNCHANGED <<probe, max_depth, stack, visited_urls, aggregated_markdown_parts, answered, trace>>

\* line 310: the print of "No article content was aggregated." to stderr
\* raises; main's `except Exception` catches it
MainNothingPrintRaises ==
    /\ pc = "scraping" /\ stack = <<>>
    /\ ~HasParts(aggregated_markdown_parts)
    /\ outcome' = "exception"
    /\ pc' = "done"
    /\ exit_status' \in ExitStatuses
    /\ UNCHANGED <<probe, max_depth, stack, visited_urls, aggregated_markdown_parts,
                   output_file, answered, trace>>

\* lines 309-310: "No article content was aggregated."
MainNothing ==
    /\ pc = "scraping" /\ stack = <<>>
    /\ ~HasParts(aggregated_markdown_parts)
    /\ outcome' = "nothing"
    /\ pc' = "done"
    /\ exit_status' \in ExitStatuses
    /\ UNCHANGED <<probe, max_depth, stack, visited_urls, aggregated_markdown_parts,
                   output_file, answered, trace>>

Next ==
    \/ MainStart
    \/ MainStartRaises
    \/ PrintRaises
    \/ SkipDepth
    \/ SkipVisited
    \/ Claim
    \/ FetchFailed
    \/ Fetched
    \/ FetchFailedPrintCaught
    \/ FetchPrintRaises
    \/ Mocked
    \/ SkipUnknown
    \/ ArticlePage
    \/ ListingPage
    \/ ListingPageNoNav
    \/ ListingPageRaises
    \/ CallChild
    \/ Return
    \/ MainSave
    \/ MainSnippetRaises
    \/ MainSavedPrintRaises
    \/ MainSaveFailedPrintRaises
    \/ MainNothing
    \/ MainNothingPrintRaises

Spec == Init /\ [][Next]_vars

\* the interpreter runs the single thread of the program until main returns
FairSpec == Spec /\ WF_vars(Next)

\* ------------------------------------------- the helpers on their own

\* documents of every combination of the markers is_article_page looks at
ProbeSubTopics ==
    { NoneElement,
      Element("ul#sub-topics-list", FALSE, FALSE, FALSE, <<>>, StartUrl),
      Element("ul#sub-topics-list", TRUE, TRUE, TRUE, <<HrefTopic>>, StartUrl) }

ProbeMoreArticles ==
    { NoneElement,
      Element("ul.list-group", FALSE, FALSE, FALSE, <<>>, StartUrl),
      Element("ul.list-group", TRUE, TRUE, FALSE, <<>>, StartUrl),
      Element("ul.list-group", TRUE, TRUE, TRUE, <<HrefArticle>>, StartUrl) }

ProbePages ==
    { NoneHtml, EmptyHtml }
    \cup { h \in { Html("document", c, b, t, fib, v, sub, more, vsub, vmore) :
                    c \in BOOLEAN, b \in {"absent", "by_id", "by_class"}, t \in BOOLEAN,
                    fib \in IdBodies, v \in BOOLEAN,
                    sub \in ProbeSubTopics, more \in ProbeMoreArticles,
                    vsub \in ProbeSubTopics, vmore \in ProbeMoreArticles } :
             /\ WellFormed(h)
             /\ ~h.container => h.body = "absent" }

\* hrefs of every form, scheme and host, with and without a mock marker
OtherDomain == "www.example.org"

\* a directory whose name holds the markers m
ProbeDir(m) ==
    IF m = {} THEN "docs"
    ELSE IF m = {"mockarticle"} THEN "docs/mockarticle"
    ELSE "docs/mocktopic"

ProbeHrefs ==
    { Href("empty", Url("", "", "", {}, "", NoDepth)),
      HrefFragment,
      Href("javascript", Url("", "", "", {}, "javascript:void(0)", NoDepth)),
      HrefInvalid }
    \cup { Href("document_relative", Url("", "", "", {}, "page", NoDepth)) }
    \cup { Href("relative", Url("", "", ProbeDir(m), m, "page", NoDepth)) :
             m \in {{}, {"mockarticle"}} }
    \cup { Href("absolute", Url(sch, host, ProbeDir(m), m, "page", NoDepth)) :
             sch \in {"https", "http", "ftp"},
             host \in {target_live_domain, OtherDomain},
             m \in {{}, {"mockarticle"}, {"mocktopic"}} }

RECURSIVE SeqsUpTo(_, _)
SeqsUpTo(S, n) ==
    IF n = 0 THEN { <<>> }
    ELSE SeqsUpTo(S, n - 1)
         \cup { Append(q, x) : q \in { r \in SeqsUpTo(S, n - 1) : Len(r) = n - 1 }, x \in S }

\* navigation blocks of at most MaxAnchors anchors, the same href twice included
ProbeNavBlocks ==
    { NoneElement }
    \cup { Element("ul#sub-topics-list", TRUE, TRUE, TRUE, L, StartUrl) :
             L \in SeqsUpTo(ProbeHrefs, MaxAnchors) }

ProbeBases ==
    { StartUrl,
      DUMMY_DIRECTORY_URL_2_TEMPLATE(1),
      Url("https", OtherDomain, "docs", {}, "start", NoDepth) }

\* URLs that get a mock page at depth >= 1
ProbeMockUrls ==
    { DUMMY_ARTICLE_URL_1_TEMPLATE(d) : d \in 1..MaxDepthBound }
    \cup { DUMMY_DIRECTORY_URL_2_TEMPLATE(d) : d \in 1..MaxDepthBound }
    \cup { DUMMY_ARTICLE_URL_3_TEMPLATE(d) : d \in 1..MaxDepthBound }
    \cup { urljoin(StartUrl, HrefArticle), urljoin(StartUrl, HrefTopic),
           urljoin(StartUrl, HrefSibling) }

PureInit ==
    /\ probe = NoProbe
    /\ max_depth = 0
    /\ pc = "start"
    /\ stack = <<>>
    /\ visited_urls = {}
    /\ aggregated_markdown_parts = <<>>
    /\ output_file = NoFile
    /\ outcome = "running"
    /\ exit_status = NotExited
    /\ answered = "not_asked"
    /\ trace = <<>>

\* is_article_page(page)
ProbeClassify ==
    /\ probe = NoProbe
    /\ \E page \in ProbePages :
          probe' = [op |-> "is_article_page", page |-> page, out |-> is_article_page(page)]
    /\ UNCHANGED <<max_depth, pc, stack, visited_urls, aggregated_markdown_parts,
                   output_file, outcome, exit_status, answered, trace>>

\* extract_links_from_html(nav, base): the list returned, or ValueError raised
ProbeExtractLinks ==
    /\ probe = NoProbe
    /\ \E nav \in ProbeNavBlocks : \E base \in ProbeBases :
          IF extract_links_raises(nav)
          THEN probe' = [op |-> "extract_links_from_html", nav |-> nav, base |-> base,
                         raised |-> TRUE, out |-> <<>>]
          ELSE \E list \in Orders(extract_links_from_html(nav, base)) :
                  probe' = [op |-> "extract_links_from_html", nav |-> nav, base |-> base,
                            raised |-> FALSE, out |-> list]
    /\ UNCHANGED <<max_depth, pc, stack, visited_urls, aggregated_markdown_parts,
                   output_file, outcome, exit_status, answered, trace>>

\* lines 218-228 for one URL at two depths
ProbeMock ==
    /\ probe = NoProbe
    /\ \E url \in ProbeMockUrls : \E d1, d2 \in 1..(MaxDepthBound + 1) :
          /\ MockKind(url) # "unknown"
          /\ probe' = [op |-> "mock", url |-> url, depth1 |-> d1, depth2 |-> d2,
                       page1 |-> MockHtml(url, d1), page2 |-> MockHtml(url, d2)]
    /\ UNCHANGED <<max_depth, pc, stack, visited_urls, aggregated_markdown_parts,
                   output_file, outcome, exit_status, answered, trace>>

\* lines 246-260 for a live page that is_article_page takes for a listing:
\* the navigation block and the links read from it
ProbeNavBlock ==
    /\ probe = NoProbe
    /\ \E page \in ProbePages \cup ListingPages :
          /\ ~is_article_page(page)
          /\ ~extract_links_raises(NavBlock(page, FALSE))
          /\ probe' = [op |-> "nav_block", page |-> page, out |-> NavBlock(page, FALSE),
                       links |-> extract_links_from_html(NavBlock(page, FALSE), StartUrl)]
    /\ UNCHANGED <<max_depth, pc, stack, visited_urls, aggregated_markdown_parts,
                   output_file, outcome, exit_status, answered, trace>>

PureNext ==
    \/ ProbeClassify
    \/ ProbeExtractLinks
    \/ ProbeMock
    \/ ProbeNavBlock

PureSpec == PureInit /\ [][PureNext]_vars

\* ------------------------------------------------------------ history

\* the positions of the history whose entry is one of `evs`
At(evs) == { i \in 1..Len(trace) : trace[i].ev \in evs }

\* ... and is about `url`
AtUrl(evs, url) == { i \in 1..Len(trace) : trace[i].url = url /\ trace[i].ev \in evs }

TraceUrls == { trace[i].url : i \in 1..Len(trace) }

\* a page was obtained: fetched live (with or without success) or synthesised
ObtainEvents == {"fetched", "fetch_failed", "mocked"}

\* a page was classified (is_article_page was called on it)
ClassifyEvents == {"article", "listing", "no_nav", "raised"}

Last == trace[Len(trace)]

\* ------------------------------------------------------------ claims

\* C1: depth guard. A call of scrape_recursive entered with
\* current_depth > max_depth returns at once: the visited set and the
\* aggregated parts stay as they were, and the only thing that happens is the
\* guard's own return (no fetch, no mock, no recursive call), or, when one of
\* its two prints raises, the end of the crawl.
C1_DepthGuardNoOp ==
    [][ (InCall("enter") /\ Top.current_depth > max_depth)
        => /\ visited_urls' = visited_urls
           /\ aggregated_markdown_parts' = aggregated_markdown_parts
           /\ \/ /\ stack' = Pop(stack)
                 /\ trace' = Append(trace, Event("depth_guard", Top.current_url,
                                                  Top.current_depth))
              \/ /\ stack' = <<>>
                 /\ trace' = Append(trace, Event("aborted", Top.current_url,
                                                  Top.current_depth))
      ]_vars

\* a crawl in progress made a call one level below max_depth and returned
\* from it through the depth guard
C1_Witness ==
    /\ trace # <<>>
    /\ Last.ev = "depth_guard"
    /\ Last.depth = max_depth + 1
    /\ max_depth >= 1
    /\ visited_urls # {}
    /\ aggregated_markdown_parts # <<>>

\* C2: idempotent dedup. A call of scrape_recursive for a URL that is already
\* in the visited set, at whatever depth, returns at once: the visited set and
\* the aggregated parts stay as they were and nothing is fetched, synthesised,
\* classified or called: the one thing that happens is the return through a
\* guard, or, when one of the call's prints raises, the end of the crawl.
C2_VisitedGuardNoOp ==
    [][ (InCall("enter") /\ Top.current_url \in visited_urls)
        => /\ visited_urls' = visited_urls
           /\ aggregated_markdown_parts' = aggregated_markdown_parts
           /\ Len(trace') = Len(trace) + 1
           /\ SubSeq(trace', 1, Len(trace)) = trace
           /\ \/ /\ stack' = Pop(stack)
                 /\ trace'[Len(trace')].ev \in {"visited_guard", "depth_guard"}
              \/ /\ stack' = <<>>
                 /\ trace'[Len(trace')].ev = "aborted"
      ]_vars

\* a URL that had been visited was called again within the depth limit and
\* the call returned through the visited guard
C2_Witness ==
    /\ trace # <<>>
    /\ Last.ev = "visited_guard"
    /\ Last.depth <= max_depth
    /\ Last.url \in visited_urls
    /\ Last.url # StartUrl

\* C3: at-most-once visit. Every URL is obtained (fetched or synthesised) at
\* most once and classified at most once, however often it is linked; a call
\* that is about to obtain its page has its URL in the visited set already, and
\* every obtain follows directly on the insertion of that URL.
C3_AtMostOnce ==
    /\ \A u \in TraceUrls :
          /\ Cardinality(AtUrl(ObtainEvents, u)) <= 1
          /\ Cardinality(AtUrl(ClassifyEvents, u)) <= 1
    /\ \A i \in 1..Len(stack) :
          stack[i].at \in {"obtain", "classify"} => stack[i].current_url \in visited_urls
    /\ \A i \in At(ObtainEvents) :
          /\ i > 1
          /\ trace[i - 1].ev = "claimed"
          /\ trace[i - 1].url = trace[i].url
          /\ trace[i].url \in visited_urls

\* a finished run in which some URL was called twice within the depth limit
\* and obtained once
C3_Witness ==
    /\ pc = "done"
    /\ \E u \in TraceUrls :
          /\ Cardinality({ i \in AtUrl({"call"}, u) : trace[i].depth <= max_depth }) >= 2
          /\ Cardinality(AtUrl(ObtainEvents, u)) = 1
          /\ Cardinality(AtUrl(ClassifyEvents, u)) = 1

\* C4: depth bound. Every URL of the visited set was inserted by a call of
\* depth 0..max_depth, every page obtained, classified or converted belongs to
\* such a call, and the calls in progress have depths 0, 1, 2, ...: each
\* recursive call is made at the depth of its caller plus one.
C4_DepthBound ==
    /\ \A i \in At({"claimed"} \cup ObtainEvents \cup ClassifyEvents \cup {"appended", "unknown_skip"}) :
          0 <= trace[i].depth /\ trace[i].depth <= max_depth
    /\ \A u \in visited_urls : AtUrl({"claimed"}, u) # {}
    /\ \A i \in 1..Len(stack) : stack[i].current_depth = i - 1
    /\ \A i \in At({"call"}) : 0 <= trace[i].depth /\ trace[i].depth <= max_depth + 1

\* a finished run that visited a page at depth max_depth >= 2 and turned down
\* a call at depth max_depth + 1
C4_Witness ==
    /\ pc = "done"
    /\ max_depth >= 2
    /\ \E i \in At({"listing"}) : trace[i].depth = max_depth
    /\ \E i \in At({"depth_guard"}) : trace[i].depth = max_depth + 1

\* the live fetch of the start URL failed: the site raised or answered with
\* the WAF's block page, or fetch_html returned None
RootFetchFailed == answered \notin {"not_asked", "ok"} \/ At({"fetch_failed"}) # {}

\* the live fetch of the start URL succeeded: fetch_html returned the page
RootFetched == At({"fetched"}) # {}

\* C5: termination. Whatever --max-depth and whatever the pages link to
\* (cycles, self links, the mock directory with its fresh directory URL at
\* each depth), main eventually returns; and no page is obtained before both
\* guards were passed: every obtain directly follows the insertion into the
\* visited set, which directly follows the entry of a call within the depth
\* limit.
C5_Terminates ==
    /\ <>(pc = "done")
    /\ [](\A i \in At(ObtainEvents) :
             /\ i > 2
             /\ trace[i - 1].ev = "claimed" /\ trace[i - 1].url = trace[i].url
             /\ trace[i - 2].ev = "call" /\ trace[i - 2].url = trace[i].url
             /\ trace[i - 2].depth <= max_depth)

\* a finished run that went through a mock directory made by a mock
\* directory, met a URL a second time, and hit the depth limit
C5_Witness ==
    /\ pc = "done"
    /\ \E i \in At({"listing"}) : trace[i].depth >= 2 /\ "mocktopic" \in trace[i].url.marks
    /\ At({"visited_guard"}) # {}
    /\ At({"depth_guard"}) # {}

\* C6: root failure is a run-level error. When the fetch of the start URL
\* fails, the finished run differs in what it leaves behind (exit status,
\* output file, closing message) from a run that fetched the start page and
\* collected nothing, which leaves exit status 0, no file and "No article
\* content was aggregated."
C6_RootFailureIsError ==
    (pc = "done" /\ RootFetchFailed)
        => <<exit_status, output_file, outcome>> # <<0, NoFile, "nothing">>

\* C7: root failure yields nothing. When the fetch of the start URL fails,
\* for whichever reason, no page is classified, no link is followed, no part
\* is aggregated and no file is written.
C7_RootFailureYieldsNothing ==
    RootFetchFailed
        => /\ At(ClassifyEvents) = {}
           /\ At({"call"}) = {1}
           /\ At({"mocked", "appended"}) = {}
           /\ aggregated_markdown_parts = <<>>
           /\ output_file = NoFile
           /\ visited_urls = {StartUrl}

\* a finished run whose start page was the WAF's block page
C7_Witness ==
    /\ pc = "done"
    /\ answered = "waf"
    /\ outcome = "nothing"

\* the URL shows none of the markers a mock is chosen by
NoMockPattern(url) ==
    Lower(url).marks \cap {"/article/", "mockarticle", "/topic/", "mocktopic"} = {}

\* C8: failures below the root are absorbed locally. A URL visited at depth
\* >= 1 that matches no mock pattern gets no page: nothing is obtained or
\* classified for it and it adds no part and makes no call. The run is not
\* aborted: the call returns to its caller, the crawl returns from the root
\* call, and at the end every link of every listing page was called at the
\* next depth and, where that depth is within the limit, is in the visited
\* set.
C8_FailuresAbsorbed ==
    /\ \A i \in At({"claimed"}) :
          (trace[i].depth >= 1 /\ NoMockPattern(trace[i].url))
          => /\ AtUrl(ObtainEvents \cup ClassifyEvents \cup {"appended"}, trace[i].url) = {}
             /\ \A k \in 1..Len(aggregated_markdown_parts) :
                    aggregated_markdown_parts[k].header # trace[i].url
             /\ i + 1 <= Len(trace) => trace[i + 1].ev = "unknown_skip"
             /\ i + 2 <= Len(trace) => /\ trace[i + 2].ev \in {"call", "exit"}
                                       /\ trace[i + 2].depth <= trace[i].depth
    /\ (pc = "done" /\ At({"unknown_skip"}) # {})
          => /\ Last = Event("exit", StartUrl, 0)
             /\ \A i \in At({"listing"}) : \A l \in trace[i].links :
                   /\ \E j \in AtUrl({"call"}, l) :
                         j > i /\ trace[j].depth = trace[i].depth + 1
                   /\ trace[i].depth + 1 <= max_depth => l \in visited_urls

\* C9 as stated, for the runs that fetch the start page and that main ends
\* without an exception: every run whose root fetch succeeds ends by producing
\* the aggregated document (a run produces no document only if the root fetch
\* failed).
C9_Original ==
    (pc = "done" /\ outcome # "exception" /\ RootFetched) => output_file.written

\* C9 as amended: a finished run has written the aggregated document only if
\* its root fetch succeeded and it collected at least one part, and the
\* document then holds exactly the collected parts in their order; a run that
\* collected no part writes no document, whether its root fetch failed or
\* not, and does not touch the file.
C9_DocumentIffParts ==
    pc = "done"
        => /\ output_file.written
                => /\ answered = "ok"
                   /\ aggregated_markdown_parts # <<>>
                   /\ output_file = Joined(aggregated_markdown_parts)
           /\ aggregated_markdown_parts = <<>> => output_file = NoFile
           /\ RootFetchFailed => output_file = NoFile

\* a finished run whose root fetch succeeded and that wrote no document
\* because it collected no part
C9_Witness ==
    /\ pc = "done"
    /\ answered = "ok"
    /\ outcome = "nothing"
    /\ aggregated_markdown_parts = <<>>
    /\ ~output_file.written
    /\ Cardinality(visited_urls) >= 2

\* the links of the start page, once it was classified a listing
RootLinks == UNION { trace[i].links : i \in { j \in At({"listing"}) : trace[j].depth = 0 } }

\* C10: scenario A. When the start page is a listing whose navigation block
\* links to n distinct pages (n >= 0), all of them classified content pages,
\* and max_depth >= 1, the finished run holds exactly n parts: one for each
\* child URL, headed by that URL and made of that page's text.
C10_ListingOfContentPages ==
    ( /\ pc = "done"
      /\ max_depth >= 1
      /\ \E i \in At({"listing", "no_nav"}) : trace[i].depth = 0
      /\ \A l \in RootLinks : AtUrl({"article"}, l) # {} )
    => /\ Len(aggregated_markdown_parts) = Cardinality(RootLinks)
       /\ { aggregated_markdown_parts[k].header : k \in 1..Len(aggregated_markdown_parts) }
             = RootLinks
       /\ \A k \in 1..Len(aggregated_markdown_parts) :
             aggregated_markdown_parts[k].markdown =
                 Markdown("text", aggregated_markdown_parts[k].header)

\* the scenario of the spec: a listing with two content children, two parts
C10_Witness ==
    /\ pc = "done"
    /\ max_depth = 1
    /\ \E i \in At({"listing"}) : trace[i].depth = 0
    /\ Cardinality(RootLinks) = 2
    /\ \A l \in RootLinks : AtUrl({"article"}, l) # {}
    /\ Len(aggregated_markdown_parts) = 2

\* the start page was classified a listing: is_article_page returned False
\* for it
RootIsListing == \E i \in At({"listing", "no_nav", "raised"}) : trace[i].depth = 0

\* C11: scenario B generalised. With max_depth = 0 and a start page classified
\* a listing, whatever links it holds, the finished run has visited the start
\* URL alone, has collected no part and has ended without an error; no child
\* is fetched, synthesised or marked visited (a child's call does nothing but
\* return through the depth guard).
C11_MaxDepthZeroListing ==
    (pc = "done" /\ max_depth = 0 /\ RootIsListing)
    => /\ visited_urls = {StartUrl}
       /\ aggregated_markdown_parts = <<>>
       /\ outcome = "nothing"
       /\ \A i \in 1..Len(trace) :
             trace[i].depth >= 1 => trace[i].ev \in {"call", "depth_guard"}

\* the headers of the parts collected so far, in their order
Headers == [k \in 1..Len(aggregated_markdown_parts) |-> aggregated_markdown_parts[k].header]

\* the position of the history at which `url` was put into the visited set
\* (0 when it never was)
ClaimedAt(url) ==
    LET at == AtUrl({"claimed"}, url)
    IN  IF at = {} THEN 0 ELSE CHOOSE i \in at : TRUE

\* the URLs of the entries of the history that are one of `evs`, in order
UrlsOf(evs, n) ==
    LET IsOne(e) == e.ev \in evs
        entries == SelectSeq(SubSeq(trace, 1, n), IsOne)
    IN  [k \in 1..Len(entries) |-> entries[k].url]

\* C12 as stated, on the mock directory, whose anchors are Mock-Article-Page-1,
\* Mock-Directory-Page-2, Mock-Article-Page-3 in this order: the parts follow
\* the depth-first pre-order in which the children of a listing are taken in
\* the order of their anchors, so the part of Mock-Article-Page-1 of a level
\* comes before the part of Mock-Article-Page-3 of that level.
C12_Original ==
    \A d \in 1..DepthCap : \A k1, k2 \in 1..Len(aggregated_markdown_parts) :
        ( /\ Headers[k1] = DUMMY_ARTICLE_URL_1_TEMPLATE(d)
          /\ Headers[k2] = DUMMY_ARTICLE_URL_3_TEMPLATE(d) )
        => k1 < k2

\* C12 as amended: the parts of a finished run are in the order in which the traversal reached
\* their pages, that is the depth-first pre-order in which the children of a
\* listing are taken in the order list(valid_urls) gives them: the headers
\* are the URLs of the content pages in the order they were appended, and a
\* part comes before another exactly when its page was entered (put into the
\* visited set) before the other's. That order need not be the order of the
\* anchors.
C12_PartsInTraversalOrder ==
    pc = "done"
    => /\ Headers = UrlsOf({"appended"}, Len(trace))
       /\ \A k1, k2 \in 1..Len(aggregated_markdown_parts) :
             k1 < k2 => /\ ClaimedAt(Headers[k1]) > 0
                        /\ ClaimedAt(Headers[k1]) < ClaimedAt(Headers[k2])

\* a finished run whose parts are not in anchor order: the part of
\* Mock-Article-Page-3 comes before the part of Mock-Article-Page-1, both
\* linked from one mock directory
C12_Witness ==
    /\ pc = "done"
    /\ \E d \in 1..DepthCap : \E k1, k2 \in 1..Len(aggregated_markdown_parts) :
          /\ Headers[k1] = DUMMY_ARTICLE_URL_3_TEMPLATE(d)
          /\ Headers[k2] = DUMMY_ARTICLE_URL_1_TEMPLATE(d)
          /\ k1 < k2

\* the entries of the history that end a call of scrape_recursive
EndEvents == {"depth_guard", "visited_guard", "fetch_failed", "unknown_skip", "exit"}

\* a call in progress, as the history knows it
Running(url, depth) == [url |-> url, depth |-> depth]

\* the calls in progress after one more entry of the history
AfterEvent(running, e) ==
    IF e.ev = "call" THEN Append(running, Running(e.url, e.depth))
    ELSE IF e.ev \in EndEvents THEN Pop(running)
    ELSE IF e.ev \in {"raised", "aborted"} THEN <<>>
    ELSE running

\* the calls in progress after the first n entries of the history,
\* outermost first
RECURSIVE RunningAfter(_)
RunningAfter(n) ==
    IF n = 0 THEN <<>>
    ELSE AfterEvent(RunningAfter(n - 1), trace[n])

\* Chains(n)[m + 1] = RunningAfter(m), for every m <= n
RECURSIVE Chains(_)
Chains(n) ==
    IF n = 0 THEN << <<>> >>
    ELSE LET before == Chains(n - 1)
         IN  Append(before, AfterEvent(before[n], trace[n]))

\* every entry of the history is an entry of the innermost call in progress,
\* and a call is made by the innermost call, one level below it
SequentialHistory(chains) ==
    \A n \in 1..Len(trace) :
        /\ \A k \in 1..Len(chains[n]) : chains[n][k].depth = k - 1
        /\ IF trace[n].ev = "call"
           THEN trace[n].depth = Len(chains[n])
           ELSE /\ chains[n] # <<>>
                /\ chains[n][Len(chains[n])] = Running(trace[n].url, trace[n].depth)

\* C13: strictly sequential depth-first expansion. The calls in progress
\* always form one ancestor chain (depths 0, 1, 2, ... from the start page
\* down): they are the calls the history has seen begin and not end. In the
\* history of a finished run every fetch, synthesis, classification, append
\* and return is a step of the innermost call of that chain, and a call for
\* the next link of a page is made only when the call for the link before it,
\* with all its descendants, has returned: never are two pages in progress
\* that are not on one ancestor chain.
C13_StrictlySequential ==
    /\ LET now == RunningAfter(Len(trace))
       IN  /\ Len(stack) = Len(now)
           /\ \A k \in 1..Len(stack) :
                 /\ stack[k].current_depth = k - 1
                 /\ Running(stack[k].current_url, stack[k].current_depth) = now[k]
    /\ pc = "done" => SequentialHistory(Chains(Len(trace)))

\* the second link of the start page is in progress after the call for the
\* first link, a listing whose own links were called, has returned
C13_Witness ==
    /\ Len(stack) = 2
    /\ stack[2].at = "classify"
    /\ \E i, j, k \in 1..Len(trace) :
          /\ i < j /\ j < k
          /\ trace[i].ev = "listing" /\ trace[i].depth = 1
          /\ trace[j].ev = "appended" /\ trace[j].depth = 2
          /\ trace[k].ev = "call" /\ trace[k].depth = 1
          /\ trace[k].url = stack[2].current_url
          /\ trace[k].url # trace[i].url

\* C14: classifier priority. For every combination of the structural
\* markers, is_article_page returns True exactly when the article container
\* (div#eg-ss-article-content) holds a body (div#article-body or
\* div.article-body) with at least one non-whitespace text node, whatever
\* navigation markers the page carries beside it, and False in every other
\* case: None or empty input, no marker at all, a container without a body
\* or with a body without text.
C14_ClassifierPriority ==
    probe.op = "is_article_page"
    => ( probe.out = TRUE
         <=> /\ probe.page.kind = "document"
             /\ probe.page.container
             /\ probe.page.body \in {"by_id", "by_class"}
             /\ probe.page.body_strings )

\* is_article_page returned True for a page that holds an article body with
\* text and a list of sub-topics with items as well
C14_Witness ==
    /\ probe.op = "is_article_page"
    /\ probe.out = TRUE
    /\ probe.page.view
    /\ probe.page.view_sub_topics.tag # "None"
    /\ probe.page.view_sub_topics.li
    /\ probe.page.view_more_articles.li_a

\* C15: link extraction is origin-filtered and duplicate-free. Every URL
\* that extract_links_from_html returns is absolute, has scheme http or
\* https and the host of the allow-list (target_live_domain, which is also
\* the host of every mock URL), and appears once in the list; an anchor whose
\* href is empty, starts with '#' or with 'javascript:' gives no URL, and an
\* anchor that resolves to another host is never returned, whatever its path.
C15_OriginFiltered ==
    (probe.op = "extract_links_from_html" /\ ~probe.raised)
    => /\ \A i \in 1..Len(probe.out) :
             /\ probe.out[i].scheme \in {"http", "https"}
             /\ probe.out[i].netloc = target_live_domain
             /\ \E k \in 1..Len(probe.nav.anchors) :
                   /\ probe.nav.anchors[k].form \in {"absolute", "relative"}
                   /\ probe.out[i] = urljoin(probe.base, probe.nav.anchors[k])
       /\ \A i, j \in 1..Len(probe.out) : i # j => probe.out[i] # probe.out[j]

\* C16: only the start page is fetched live. fetch_html is called at most
\* once in a run, for the start URL at depth 0; every page obtained at depth
\* >= 1 is synthesised from a mock template chosen by its URL and never
\* fetched: a URL with an article marker gets the mock article and is
\* classified a content page, a URL with a topic marker (and no article
\* marker) gets the mock directory and is classified a listing with the
\* three links made from the DUMMY_*_TEMPLATEs (the classification is the next
\* thing that happens to the page, unless a print raises and ends the crawl).
C16_OnlyRootFetchedLive ==
    /\ Cardinality(At({"fetched", "fetch_failed"})) <= 1
    /\ \A i \in At({"fetched", "fetch_failed"}) :
          trace[i].depth = 0 /\ trace[i].url = StartUrl
    /\ answered # "not_asked"
          => \/ At({"fetched", "fetch_failed"}) # {}
             \/ Last = Event("aborted", StartUrl, 0)
    /\ At({"fetched"}) # {} => answered = "ok"
    /\ \A i \in At(ObtainEvents) : trace[i].depth >= 1 => trace[i].ev = "mocked"
    /\ \A i \in At({"mocked"}) :
          /\ trace[i].depth >= 1
          /\ (i < Len(trace) /\ trace[i + 1].ev # "aborted")
             => IF Lower(trace[i].url).marks \cap {"/article/", "mockarticle"} # {}
                THEN trace[i + 1] = Event("article", trace[i].url, trace[i].depth)
                ELSE /\ Lower(trace[i].url).marks \cap {"/topic/", "mocktopic"} # {}
                     /\ trace[i + 1] =
                           LinksEvent("listing", trace[i].url, trace[i].depth,
                                      { DUMMY_ARTICLE_URL_1_TEMPLATE(trace[i].depth),
                                        DUMMY_DIRECTORY_URL_2_TEMPLATE(trace[i].depth),
                                        DUMMY_ARTICLE_URL_3_TEMPLATE(trace[i].depth) })

\* a finished run that fetched the start page and synthesised a mock
\* directory at depth 1 and a mock article at depth 2
C16_Witness ==
    /\ pc = "done"
    /\ Cardinality(At({"fetched"})) = 1
    /\ \E i, j \in At({"mocked"}) :
          /\ trace[i].depth = 1 /\ trace[i + 1].ev = "listing"
          /\ trace[j].depth = 2 /\ trace[j + 1].ev = "article"

\* the links a mock page gives to the crawl
MockLinks(page) ==
    extract_links_from_html(NavBlock(page, TRUE), StartUrl)

\* C17 as stated: the page substituted for a URL at depth >= 1, its kind and
\* its set of child links, is a function of the URL alone: the same URL
\* reached at two depths gets the same page.
C17_Original ==
    probe.op = "mock"
    => /\ is_article_page(probe.page1) = is_article_page(probe.page2)
       /\ MockLinks(probe.page1) = MockLinks(probe.page2)

\* C17 as amended: the kind of the page substituted for a URL at depth >= 1
\* is a function of the URL alone, and the mock article is the same page at
\* every depth; the child links of the mock directory are a function of the
\* depth at which the page is synthesised, not of its URL: they are the three
\* DUMMY_*_TEMPLATEs filled in with that depth, so the same URL reached at
\* two different depths gets two directories with disjoint sets of links.
C17_KindByUrlLinksByDepth ==
    probe.op = "mock"
    => /\ is_article_page(probe.page1) = is_article_page(probe.page2)
       /\ is_article_page(probe.page1)
          <=> Lower(probe.url).marks \cap {"/article/", "mockarticle"} # {}
       /\ is_article_page(probe.page1) => probe.page1 = probe.page2
       /\ ~is_article_page(probe.page1)
          => /\ MockLinks(probe.page1) = { DUMMY_ARTICLE_URL_1_TEMPLATE(probe.depth1),
                                           DUMMY_DIRECTORY_URL_2_TEMPLATE(probe.depth1),
                                           DUMMY_ARTICLE_URL_3_TEMPLATE(probe.depth1) }
             /\ MockLinks(probe.page2) = { DUMMY_ARTICLE_URL_1_TEMPLATE(probe.depth2),
                                           DUMMY_DIRECTORY_URL_2_TEMPLATE(probe.depth2),
                                           DUMMY_ARTICLE_URL_3_TEMPLATE(probe.depth2) }
             /\ probe.depth1 # probe.depth2
                => MockLinks(probe.page1) \cap MockLinks(probe.page2) = {}

\* the mock directory URL of level 1 synthesised at depth 1 and at depth 2
C17_Witness ==
    /\ probe.op = "mock"
    /\ probe.url = DUMMY_DIRECTORY_URL_2_TEMPLATE(1)
    /\ probe.depth1 = 1
    /\ probe.depth2 = 2
    /\ MockLinks(probe.page1) # MockLinks(probe.page2)

\* the first list, in the order [sub-topics list with at least one item,
\* more-articles list], of the view root of a page, or of the whole document
\* when the page has no view root
FirstList(page) ==
    IF page.kind # "document" THEN NoneElement
    ELSE IF ContextSubTopics(page).tag # "None" /\ ContextSubTopics(page).li
         THEN ContextSubTopics(page)
    ELSE ContextMoreArticles(page)

\* C18 as stated: for a live page classified a listing, the fragment the
\* links are read from is the first list, in the order [sub-topics list with
\* at least one item, more-articles list], found in the view root, or in the
\* whole document when there is no view root; the links of that list are
\* followed whenever such a list exists, and none is followed only when
\* neither list exists.
C18_Original ==
    probe.op = "nav_block"
    => /\ probe.out = FirstList(probe.page)
       /\ probe.links = extract_links_from_html(FirstList(probe.page), StartUrl)

\* C18 as amended: for a live page classified a listing, the fragment the
\* links are read from is the first list, in the order [sub-topics list with
\* at least one item, more-articles list], found inside the view root
\* (div#eg-ss-view); a page without a view root gives no fragment and no link
\* is followed, even when the document holds such a list, although the
\* classifier does look for the lists in the whole document then.
C18_NavigationInsideView ==
    probe.op = "nav_block"
    => /\ (probe.page.kind = "document" /\ probe.page.view)
             => /\ probe.out = FirstList(probe.page)
                /\ probe.links = extract_links_from_html(FirstList(probe.page), StartUrl)
       /\ ~(probe.page.kind = "document" /\ probe.page.view)
             => /\ probe.out = NoneElement
                /\ probe.links = {}

\* a page without view root whose document holds a sub-topics list with
\* items and links: no fragment, no links
C18_Witness ==
    /\ probe.op = "nav_block"
    /\ ~probe.page.view
    /\ probe.page.sub_topics.li
    /\ extract_links_from_html(probe.page.sub_topics, StartUrl) # {}
    /\ probe.out = NoneElement
    /\ probe.links = {}

\* the URLs of the pages classified content pages so far
ContentUrls == { trace[i].url : i \in At({"article"}) }

\* C19: DocumentPart invariant. Each part begins with the header naming the
\* URL of a page that is in the visited set and was classified a content
\* page; no two parts name the same URL, so there are at most as many parts
\* as visited URLs; and the links of a page classified a content page are
\* never followed: after its classification the call does nothing but append
\* its part and return (or end the crawl, when a print raises).
C19_DocumentParts ==
    /\ \A k \in 1..Len(aggregated_markdown_parts) :
          /\ Headers[k] \in visited_urls
          /\ Headers[k] \in ContentUrls
          /\ aggregated_markdown_parts[k].markdown = Markdown("text", Headers[k])
    /\ \A k1, k2 \in 1..Len(aggregated_markdown_parts) :
          k1 # k2 => Headers[k1] # Headers[k2]
    /\ Len(aggregated_markdown_parts) <= Cardinality(visited_urls)
    /\ \A i \in At({"article"}) :
          /\ \A j \in 1..Len(trace) : trace[j].ev = "listing" => trace[j].url # trace[i].url
          /\ i < Len(trace) => trace[i + 1].ev \in {"appended", "exit", "aborted"}
          /\ (i + 1 < Len(trace) /\ trace[i + 1].ev = "appended")
             => trace[i + 2].ev \in {"exit", "aborted"}

\* a finished run with at least two parts, each for a page classified a
\* content page, and more visited URLs than parts
C19_Witness ==
    /\ pc = "done"
    /\ Len(aggregated_markdown_parts) >= 2
    /\ Cardinality(visited_urls) > Len(aggregated_markdown_parts)
    /\ Cardinality(ContentUrls) = Len(aggregated_markdown_parts)

\* the URLs whose shortest chain of listing-page links from the start URL has
\* at most k links, in the link graph the run has seen (the links of every
\* page it classified a listing)
RECURSIVE Reach(_)
Reach(k) ==
    IF k < 0 THEN {}
    ELSE IF k = 0 THEN {StartUrl}
    ELSE Reach(k - 1)
         \cup UNION { trace[i].links : i \in { j \in At({"listing"}) : trace[j].url \in Reach(k - 1) } }

====
